---- MODULE Spec2Model ----
(***************************************************************************)
(* Model of the text extraction (dump.py) and reinsertion (repack.py)      *)
(* scripts for the Pia Carrot 3.3 ROM.                                     *)
(*                                                                         *)
(* Characters are Unicode code points, bytes are 0..255.  A Python str or  *)
(* bytes value is a sequence; Python positions are 0-based, so s[i] of the *)
(* source is s[i+1] here.  A value that may be None is a record            *)
(* [absent, s]; a call that may raise returns [raised, bytes].             *)
(*                                                                         *)
(* Four programs are modelled, each with its own specification:            *)
(*   SpecCodec       read_string_from followed by encode_string            *)
(*   SpecClassifier  is_valid_string                                       *)
(*   SpecDump        the main script of dump.py (scan and tables mode)     *)
(*   SpecRepack      the main script of repack.py                          *)
(***************************************************************************)
EXTENDS Integers, Sequences, FiniteSets, TLC

VARIABLES
    \* --- codec round trip
    c_pc, c_run, c_decoded, c_encoded,
    \* --- classifier
    v_pc, v_text, v_result,
    \* --- dump.py: the ROM read, the configured mode, the position of the
    \* main script, its variables, the blocks written to the output file and
    \* (history) the pointer candidates examined so far
    d_pc, d_rom_data, mode, string_id_counter, seen_text_offsets, all_pointers,
    pointer_index, table_index, current_offset, output_file, candidates,
    \* --- repack.py: the position of the main script, the ROM as it was
    \* loaded (history), the bytearray rom_data, the parsed entries, the index
    \* of the entry the running pass is at, the variables of the script, the
    \* warnings printed by the second pass, the output ROM file and (history)
    \* the original_length computed for each entry id
    r_pc, rom_loaded, rom_data, entries, entry_index,
    current_free_space_offset, repointed_locations, warnings, new_rom_file,
    original_lengths

codecVars == <<c_pc, c_run, c_decoded, c_encoded>>
clsVars == <<v_pc, v_text, v_result>>
dumpVars == <<d_pc, d_rom_data, mode, string_id_counter, seen_text_offsets,
              all_pointers, pointer_index, table_index, current_offset,
              output_file, candidates>>
repackVars == <<r_pc, rom_loaded, rom_data, entries, entry_index,
                current_free_space_offset, repointed_locations, warnings,
                new_rom_file, original_lengths>>
vars == <<codecVars, clsVars, dumpVars, repackVars>>

-----------------------------------------------------------------------------
(* Bounds of the model *)

\* longest byte run given to the codec round trip
MaxRun == 3
\* longest freely chosen part of a text given to the classifier
MaxHead == 4
\* number of 4-byte pointer fields of the ROM images given to dump.py
NSlots == 3
\* number of entries of the text files given to repack.py
MaxEntries == 3

-----------------------------------------------------------------------------
(* Generic helpers *)

SetMin(S) == CHOOSE x \in S : \A y \in S : x <= y
SetMax(S) == CHOOSE x \in S : \A y \in S : x >= y
Min2(a, b) == IF a <= b THEN a ELSE b
Max2(a, b) == IF a >= b THEN a ELSE b

\* all sequences over S of length 0..n
SeqsUpTo(S, n) == UNION {[1..k -> S] : k \in 0..n}

\* Python s.startswith(p), s.endswith(p)
StartsWith(s, p) == Len(s) >= Len(p) /\ SubSeq(s, 1, Len(p)) = p
EndsWith(s, p) == Len(s) >= Len(p) /\ SubSeq(s, Len(s) - Len(p) + 1, Len(s)) = p

\* Python s.replace(a, b) for single elements a, b
Replace1(s, a, b) == [i \in 1..Len(s) |-> IF s[i] = a THEN b ELSE s[i]]

\* Python s * n
RECURSIVE Repeat(_, _)
Repeat(s, n) == IF n <= 0 THEN <<>> ELSE s \o Repeat(s, n - 1)

None == [absent |-> TRUE, s |-> <<>>]
Some(s) == [absent |-> FALSE, s |-> s]

-----------------------------------------------------------------------------
(* Game-specific bytes and character classes *)

terminator == 0
newline_char == 10

\* str.isspace(), also the regex class \s
IsSpace(c) ==
    \/ c \in {9, 10, 11, 12, 13, 28, 29, 30, 31, 32, 133, 160, 5760}
    \/ (c >= 8192 /\ c <= 8202)
    \/ c \in {8232, 8233, 8239, 8287, 12288}

\* ASCII whitespace, skipped by bytes.fromhex
IsAsciiSpace(c) == c \in {9, 10, 11, 12, 13, 32}

\* [0-9A-F]
IsUpperHex(c) == (c >= 48 /\ c <= 57) \/ (c >= 65 /\ c <= 70)
\* a hex digit as bytes.fromhex accepts it
IsHexDigit(c) == IsUpperHex(c) \/ (c >= 97 /\ c <= 102)
HexValue(c) == IF c <= 57 THEN c - 48 ELSE IF c <= 70 THEN c - 55 ELSE c - 87

\* LATIN_DIGIT_RE [A-Za-z0-9]
IsLatinDigit(c) ==
    (c >= 48 /\ c <= 57) \/ (c >= 65 /\ c <= 90) \/ (c >= 97 /\ c <= 122)

\* JAPANESE_RE [぀-ゟ゠-ヿ一-鿿]
IsJapanese(c) ==
    (c >= 12352 /\ c <= 12447) \/ (c >= 12448 /\ c <= 12543)
        \/ (c >= 19968 /\ c <= 40959)

\* PRINTABLE_RE
IsPrintable(c) ==
    \/ (c >= 32 /\ c <= 126)
    \/ (c >= 12288 /\ c <= 12351)
    \/ (c >= 12352 /\ c <= 12447)
    \/ (c >= 12448 /\ c <= 12543)
    \/ (c >= 19968 /\ c <= 40959)
    \/ c \in {10, 13, 9}

\* The non-ASCII characters of the model that the regex class \w matches
\* (letters): hiragana a, i, u, e, ko, fullwidth b, halfwidth katakana a.
WordLetters == {12354, 12356, 12358, 12360, 12371, 65346, 65393}

\* regex \w on the characters of the model
IsWord(c) == IsLatinDigit(c) \/ c = 95 \/ c \in WordLetters

-----------------------------------------------------------------------------
(* The shift_jis codec of Python, restricted to the bytes and characters   *)
(* the model uses.                                                         *)

\* two-byte sequences <<lead, trail>> -> character.  Every other pair of
\* model bytes with a lead byte first is an illegal multibyte sequence.
SJIS_DOUBLE ==
    (<<130, 160>> :> 12354) @@ (<<130, 162>> :> 12356) @@
    (<<130, 164>> :> 12358) @@ (<<130, 166>> :> 12360) @@
    (<<130, 177>> :> 12371) @@ (<<130, 130>> :> 65346) @@
    (<<129, 64>> :> 12288)

IsLeadByte(b) == (b >= 129 /\ b <= 159) \/ (b >= 224 /\ b <= 252)

HexDigitChar(n) == IF n < 10 THEN 48 + n ELSE 55 + n

\* bytes.hex().upper()
RECURSIVE HexUpper(_)
HexUpper(bs) ==
    IF bs = <<>> THEN <<>>
    ELSE <<HexDigitChar(Head(bs) \div 16), HexDigitChar(Head(bs) % 16)>>
             \o HexUpper(Tail(bs))

\* custom_sjis_error_handler for a UnicodeDecodeError over object[start:end]:
\* the replacement text and the position decoding resumes at
custom_sjis_error_handler(object, start, end) ==
    [text |-> <<60, 36>> \o HexUpper(SubSeq(object, start + 1, end)) \o <<36, 62>>,
     resume |-> end]

\* bytes.decode('shift_jis', errors='custom_sjis') from position i on.
\* Every decoding error of the codec spans one byte.
RECURSIVE sjis_decode(_, _)
sjis_decode(bs, i) ==
    IF i >= Len(bs) THEN <<>>
    ELSE LET b == bs[i + 1] IN
        IF b < 128 THEN <<b>> \o sjis_decode(bs, i + 1)
        ELSE IF b >= 161 /\ b <= 223
            THEN <<65377 + (b - 161)>> \o sjis_decode(bs, i + 1)
        ELSE IF IsLeadByte(b) /\ i + 1 < Len(bs)
                  /\ <<b, bs[i + 2]>> \in DOMAIN SJIS_DOUBLE
            THEN <<SJIS_DOUBLE[<<b, bs[i + 2]>>]>> \o sjis_decode(bs, i + 2)
        ELSE LET r == custom_sjis_error_handler(bs, i, i + 1)
             IN r.text \o sjis_decode(bs, r.resume)

\* str.encode('shift_jis', errors='replace') of one character
sjis_encode_char(c) ==
    IF c < 128 THEN <<c>>
    ELSE IF c >= 65377 /\ c <= 65439 THEN <<161 + (c - 65377)>>
    ELSE IF \E p \in DOMAIN SJIS_DOUBLE : SJIS_DOUBLE[p] = c
        THEN CHOOSE p \in DOMAIN SJIS_DOUBLE : SJIS_DOUBLE[p] = c
    ELSE <<63>>

RECURSIVE sjis_encode(_)
sjis_encode(s) ==
    IF s = <<>> THEN <<>> ELSE sjis_encode_char(Head(s)) \o sjis_encode(Tail(s))

-----------------------------------------------------------------------------
(* Byte buffers.  A ROM image is [size, cells, runs]: cells maps offsets   *)
(* to bytes, runs is a sequence of [start, len, byte] blocks (latest       *)
(* first) and every other byte below size is 0.  A cell takes precedence   *)
(* over a run.  A plain byte sequence bs is the image ImageOf(bs).         *)

ImageOf(bs) ==
    [size |-> Len(bs), cells |-> [o \in 0..(Len(bs) - 1) |-> bs[o + 1]],
     runs |-> <<>>]

RunsAt(rom, o) ==
    {k \in 1..Len(rom.runs) :
        rom.runs[k].start <= o /\ o < rom.runs[k].start + rom.runs[k].len}

\* data[o]
ByteAt(rom, o) ==
    IF o \in DOMAIN rom.cells THEN rom.cells[o]
    ELSE IF RunsAt(rom, o) # {} THEN rom.runs[SetMin(RunsAt(rom, o))].byte
    ELSE 0

\* the offset examined after o by a forward search that did not stop at o:
\* inside a block of equal non-cell bytes the search can only stop at a cell
\* or at the end of the block
NextProbe(rom, o) ==
    IF o \notin DOMAIN rom.cells /\ RunsAt(rom, o) # {}
    THEN LET r == rom.runs[SetMin(RunsAt(rom, o))]
             stop == {c \in DOMAIN rom.cells : c > o /\ c < r.start + r.len}
                        \cup {r.start + r.len}
                        \cup {rom.runs[k].start : k \in
                                {j \in 1..Len(rom.runs) : rom.runs[j].start > o}}
         IN SetMin(stop)
    ELSE o + 1

\* data.find(bytes([b]), offset) for offset >= 0: -1 when not found
RECURSIVE find(_, _, _)
find(rom, b, offset) ==
    IF offset >= rom.size THEN -1
    ELSE IF ByteAt(rom, offset) = b THEN offset
    ELSE find(rom, b, NextProbe(rom, offset))

\* data[a:b] for 0 <= a, as a sequence (short slices only)
Slice(rom, a, b) ==
    LET e == Min2(b, rom.size)
    IN IF e <= a THEN <<>> ELSE [k \in 1..(e - a) |-> ByteAt(rom, a + k - 1)]

\* the cells of the bytes bs stored from offset on
CellsAt(offset, bs) == [o \in offset..(offset + Len(bs) - 1) |-> bs[o - offset + 1]]

\* bytearray slice assignment data[a : a + len(bs)] = bs for 0 <= a: a start
\* past the end is clamped to the end, bytes beyond the end extend the array
SetSlice(rom, a, bs) ==
    LET start == Min2(a, rom.size)
    IN [size |-> Max2(rom.size, start + Len(bs)),
        cells |-> CellsAt(start, bs) @@ rom.cells,
        runs |-> rom.runs]

\* the same assignment for a block of n bytes b
FillSlice(rom, a, n, b) ==
    LET start == Min2(a, rom.size)
    IN IF n <= 0 THEN rom
       ELSE [size |-> Max2(rom.size, start + n),
             cells |-> [o \in {c \in DOMAIN rom.cells : c < start \/ c >= start + n}
                           |-> rom.cells[o]],
             runs |-> <<[start |-> start, len |-> n, byte |-> b]>> \o rom.runs]

\* data[a : a + n] holds n bytes b
FilledWith(rom, a, n, b) ==
    \/ n <= 0
    \/ /\ a + n <= rom.size
       /\ \A c \in DOMAIN rom.cells : c < a \/ c >= a + n
       /\ RunsAt(rom, a) # {}
       /\ LET k == SetMin(RunsAt(rom, a))
              r == rom.runs[k]
          IN /\ r.byte = b
             /\ r.start + r.len >= a + n
             /\ \A j \in 1..(k - 1) :
                   \/ rom.runs[j].start >= a + n
                   \/ rom.runs[j].start + rom.runs[j].len <= a

-----------------------------------------------------------------------------
(* dump.py: read_string_from *)

read_string_from(data, offset, terminator_byte) ==
    IF offset >= data.size THEN None
    ELSE LET end_index == find(data, terminator_byte, offset) IN
        IF end_index = -1 THEN None
        ELSE LET chunk == Slice(data, offset, end_index)
                 processed_chunk == Replace1(chunk, newline_char, 10)
             IN Some(sjis_decode(processed_chunk, 0))

-----------------------------------------------------------------------------
(* repack.py: encode_string *)

\* end (exclusive) of the longest run of [0-9A-F\s] starting at position i
RECURSIVE HexRunEnd(_, _)
HexRunEnd(t, i) ==
    IF i < Len(t) /\ (IsUpperHex(t[i + 1]) \/ IsSpace(t[i + 1]))
    THEN HexRunEnd(t, i + 1) ELSE i

RECURSIVE SpaceRunEnd(_, _, _)
SpaceRunEnd(t, i, e) ==
    IF i < e /\ IsSpace(t[i + 1]) THEN SpaceRunEnd(t, i + 1, e) ELSE i

\* hex_tag_pattern <\$\s*([0-9A-F\s]+)\s*\$> matched at position i: whether
\* it matches, the end of the match and the span of its group.  The leading
\* \s* is greedy but leaves the group at least one character; the group
\* then takes the rest of the run, since "$" must follow it.
hex_tag_match(t, i) ==
    IF i + 1 < Len(t) /\ t[i + 1] = 60 /\ t[i + 2] = 36
    THEN LET e == HexRunEnd(t, i + 2)
             ws == SpaceRunEnd(t, i + 2, e)
         IN IF e > i + 2 /\ e + 1 < Len(t) /\ t[e + 1] = 36 /\ t[e + 2] = 62
            THEN [matched |-> TRUE, end |-> e + 2,
                  gs |-> IF ws = e THEN e - 1 ELSE ws, ge |-> e]
            ELSE [matched |-> FALSE, end |-> i, gs |-> i, ge |-> i]
    ELSE [matched |-> FALSE, end |-> i, gs |-> i, ge |-> i]

\* combined_pattern.split(t) with TAG_MAP empty, so that combined_pattern is
\* (<\$\s*([0-9A-F\s]+)\s*\$>|): the text since the last match, then both
\* groups of each match.  Where no tag starts the empty alternative matches;
\* its groups are '' and None, both written <<>> (the loop skips both).
RECURSIVE re_split(_, _, _)
re_split(t, pos, last) ==
    IF pos > Len(t) THEN <<SubSeq(t, last + 1, Len(t))>>
    ELSE LET m == hex_tag_match(t, pos) IN
        IF m.matched
        THEN <<SubSeq(t, last + 1, pos), SubSeq(t, pos + 1, m.end),
               SubSeq(t, m.gs + 1, m.ge)>> \o re_split(t, m.end, m.end)
        ELSE <<SubSeq(t, last + 1, pos), <<>>, <<>>>> \o re_split(t, pos + 1, pos)

\* str.strip()
RECURSIVE lstrip(_)
lstrip(s) == IF s # <<>> /\ IsSpace(Head(s)) THEN lstrip(Tail(s)) ELSE s
RECURSIVE rstrip(_)
rstrip(s) ==
    IF s # <<>> /\ IsSpace(s[Len(s)]) THEN rstrip(SubSeq(s, 1, Len(s) - 1)) ELSE s
strip(s) == rstrip(lstrip(s))

\* s.replace(" ", "")
RECURSIVE remove_spaces(_)
remove_spaces(s) ==
    IF s = <<>> THEN <<>>
    ELSE (IF Head(s) = 32 THEN <<>> ELSE <<Head(s)>>) \o remove_spaces(Tail(s))

\* bytes.fromhex(s): raises ValueError unless s is pairs of hex digits with
\* ASCII whitespace between the pairs only
RECURSIVE fromhex(_)
fromhex(s) ==
    IF s = <<>> THEN [raised |-> FALSE, bytes |-> <<>>]
    ELSE IF IsAsciiSpace(Head(s)) THEN fromhex(Tail(s))
    ELSE IF Len(s) >= 2 /\ IsHexDigit(s[1]) /\ IsHexDigit(s[2])
        THEN LET rest == fromhex(SubSeq(s, 3, Len(s)))
             IN IF rest.raised THEN rest
                ELSE [raised |-> FALSE,
                      bytes |-> <<16 * HexValue(s[1]) + HexValue(s[2])>> \o rest.bytes]
    ELSE [raised |-> TRUE, bytes |-> <<>>]

\* the body of the loop over parts: what one part adds to encoded_bytes
encode_part(part) ==
    IF part = <<>> THEN [raised |-> FALSE, bytes |-> <<>>]
    ELSE IF StartsWith(part, <<60, 36>>) /\ EndsWith(part, <<36, 62>>)
        THEN fromhex(remove_spaces(strip(SubSeq(part, 3, Len(part) - 2))))
    ELSE [raised |-> FALSE, bytes |-> sjis_encode(part)]

RECURSIVE encode_parts(_)
encode_parts(parts) ==
    IF parts = <<>> THEN [raised |-> FALSE, bytes |-> <<>>]
    ELSE LET h == encode_part(Head(parts)) IN
        IF h.raised THEN h
        ELSE LET rest == encode_parts(Tail(parts))
             IN IF rest.raised THEN rest
                ELSE [raised |-> FALSE, bytes |-> h.bytes \o rest.bytes]

encode_string(text_string) ==
    LET processed_text == Replace1(text_string, 10, newline_char)
        parts == re_split(processed_text, 0, 0)
        encoded_bytes == encode_parts(parts)
    IN IF encoded_bytes.raised THEN encoded_bytes
       ELSE [raised |-> FALSE, bytes |-> encoded_bytes.bytes \o <<terminator>>]

-----------------------------------------------------------------------------
(* SpecCodec: a byte run without terminator is stored before a terminator, *)
(* read back with read_string_from and encoded again with encode_string.   *)

\* newline, "$", "<", ">", "A", "F", the lead byte 0x82, 0xA0, 0xFF
CodecBytes == {10, 36, 60, 62, 65, 70, 130, 160, 255}

NoEncoding == [raised |-> FALSE, bytes |-> <<>>]
EmptyImage == [size |-> 0, cells |-> <<>>, runs |-> <<>>]

\* the variables of the programs a specification does not run
CodecIdle ==
    c_pc = "idle" /\ c_run = <<>> /\ c_decoded = None /\ c_encoded = NoEncoding
ClassifierIdle ==
    v_pc = "idle" /\ v_text = None /\ v_result = FALSE
DumpIdle ==
    /\ d_pc = "idle" /\ d_rom_data = EmptyImage /\ mode = "scan"
    /\ string_id_counter = 0 /\ seen_text_offsets = <<>> /\ all_pointers = <<>>
    /\ pointer_index = 0 /\ table_index = 0 /\ current_offset = 0
    /\ output_file = <<>> /\ candidates = <<>>

RepackIdle ==
    /\ r_pc = "idle" /\ rom_loaded = EmptyImage /\ rom_data = EmptyImage
    /\ entries = <<>> /\ entry_index = 0 /\ current_free_space_offset = 0
    /\ repointed_locations = <<>> /\ warnings = <<>>
    /\ new_rom_file = [written |-> FALSE, data |-> EmptyImage]
    /\ original_lengths = <<>>

InitCodec ==
    /\ c_pc = "start"
    /\ c_run \in SeqsUpTo(CodecBytes, MaxRun)
    /\ c_decoded = None
    /\ c_encoded = NoEncoding
    /\ ClassifierIdle
    /\ DumpIdle
    /\ RepackIdle

CodecDecode ==
    /\ c_pc = "start"
    /\ c_decoded' = read_string_from(ImageOf(c_run \o <<terminator>>), 0, terminator)
    /\ c_pc' = "decoded"
    /\ UNCHANGED <<c_run, c_encoded, clsVars, dumpVars, repackVars>>

CodecEncode ==
    /\ c_pc = "decoded"
    /\ ~c_decoded.absent
    /\ c_encoded' = encode_string(c_decoded.s)
    /\ c_pc' = "encoded"
    /\ UNCHANGED <<c_run, c_decoded, clsVars, dumpVars, repackVars>>

NextCodec == CodecDecode \/ CodecEncode

SpecCodec == InitCodec /\ [][NextCodec]_vars

(* C1 *)

\* C1: for every byte run without a terminator byte that read_string_from
\* decodes to text, encode_string of the decoded text returns the run
\* followed by one terminator byte, also when unmappable bytes of the run
\* were decoded to <$HEX$> escape tokens.
C1_RoundTrip ==
    c_pc = "encoded" =>
        /\ ~c_encoded.raised
        /\ c_encoded.bytes = c_run \o <<terminator>>

-----------------------------------------------------------------------------
(* dump.py: the filter configuration and is_valid_string *)

MIN_CHARS == 2
\* the thresholds 0.15, 0.55 and 0.05 as <<numerator, denominator>>
MAX_REPLACEMENT_FRAC == <<15, 100>>
MIN_PRINTABLE_FRAC == <<55, 100>>
MIN_JP_CHARS_OVERRIDE == 2
MIN_LATIN_DIGITS == 3
MAX_TOTAL_LENGTH == 1024
MAX_CONTROL_CHAR_FRAC == <<5, 100>>
MIN_NON_JP_LENGTH == 5

\* n / max(1, len) > q and n / max(1, len) < q.  For the lengths is_valid_string
\* admits (at most MAX_TOTAL_LENGTH) the float comparison of the source is the
\* comparison of the exact fractions.
FracAbove(n, len, q) == n * q[2] > q[1] * Max2(1, len)
FracBelow(n, len, q) == n * q[2] < q[1] * Max2(1, len)

\* end (exclusive) of the longest run of \w starting at position i
RECURSIVE WordRunEnd(_, _)
WordRunEnd(s, i) ==
    IF i < Len(s) /\ IsWord(s[i + 1]) THEN WordRunEnd(s, i + 1) ELSE i

\* REPLACEMENT_TOKEN_RE <\$\w{2,}\$> matched at position i: the end of the
\* match, or -1.  "$" is no \w, so \w{2,} takes the whole run.
replacement_token_end(s, i) ==
    IF i + 1 < Len(s) /\ s[i + 1] = 60 /\ s[i + 2] = 36
    THEN LET e == WordRunEnd(s, i + 2)
         IN IF e >= i + 4 /\ e + 1 < Len(s) /\ s[e + 1] = 36 /\ s[e + 2] = 62
            THEN e + 2 ELSE -1
    ELSE -1

\* REPLACEMENT_TOKEN_RE.findall(s), as the set of the matches' start
\* positions: a match holds "<" only at its start, so the matches found from
\* each position do not overlap and are the ones findall's scan returns.
repl_tokens(s) ==
    {i \in 0..(Len(s) - 1) : s[i + 1] = 60 /\ replacement_token_end(s, i) # -1}

\* len(''.join(repl_tokens))
repl_tokens_length(s) ==
    LET starts == repl_tokens(s)
    IN Cardinality(UNION {i..(replacement_token_end(s, i) - 1) : i \in starts})

printable_count(s) == Cardinality({i \in 1..Len(s) : IsPrintable(s[i])})
jp_count(s) == Cardinality({i \in 1..Len(s) : IsJapanese(s[i])})
latin_digits_count(s) == Cardinality({i \in 1..Len(s) : IsLatinDigit(s[i])})
control_count(s) ==
    Cardinality({i \in 1..Len(s) : s[i] < 32 /\ s[i] \notin {10, 13, 9}})

is_repeated_pattern(s) ==
    \/ Cardinality({s[i] : i \in 1..Len(s)}) = 1
    \/ \E size \in 1..5 :
        /\ Len(s) > size
        /\ Len(s) % size = 0
        /\ \A i \in 1..Len(s) : s[i] = s[((i - 1) % size) + 1]

is_single_japanese_char_repetition(s) ==
    IF Len(s) = 0 THEN FALSE
    ELSE IF Cardinality({s[i] : i \in 1..Len(s)}) = 1 THEN IsJapanese(s[1])
    ELSE FALSE

\* re.match(r'^[぀-ヿ一-鿿][A-Za-z0-9]', start_sample)
starts_jp_then_latin(sample) ==
    /\ Len(sample) >= 2
    /\ ((sample[1] >= 12352 /\ sample[1] <= 12543)
            \/ (sample[1] >= 19968 /\ sample[1] <= 40959))
    /\ IsLatinDigit(sample[2])

\* re.match(r'^[A-Za-z0-9]{1,3}[^A-Za-z0-9]', start_sample)
starts_short_latin(sample) ==
    \E k \in 1..3 :
        /\ Len(sample) > k
        /\ \A j \in 1..k : IsLatinDigit(sample[j])
        /\ ~IsLatinDigit(sample[k + 1])

\* is_valid_string with the native-script override (MIN_JP_CHARS_OVERRIDE)
\* tested after the start-of-text tests instead of before the non-native tests
is_valid_string_late_override(text) ==
    IF text.absent \/ text.s = <<>> THEN FALSE
    ELSE IF Len(strip(text.s)) < MIN_CHARS THEN FALSE
    ELSE IF Len(text.s) > MAX_TOTAL_LENGTH THEN FALSE
    ELSE LET s == text.s
             repl_token_count == Cardinality(repl_tokens(s))
             start_sample == SubSeq(s, 1, Min2(6, Len(s)))
         IN
         IF FracAbove(control_count(s), Len(s), MAX_CONTROL_CHAR_FRAC) THEN FALSE
         ELSE IF jp_count(s) < MIN_JP_CHARS_OVERRIDE
                    /\ latin_digits_count(s) < MIN_LATIN_DIGITS THEN FALSE
         ELSE IF FracBelow(printable_count(s), Len(s), MIN_PRINTABLE_FRAC) THEN FALSE
         ELSE IF repl_token_count > 0
                    /\ FracAbove(repl_tokens_length(s), Len(s), MAX_REPLACEMENT_FRAC)
              THEN FALSE
         ELSE IF jp_count(s) = 0 /\ printable_count(s) < MIN_NON_JP_LENGTH THEN FALSE
         ELSE IF jp_count(s) = 0 /\ latin_digits_count(s) < 3 THEN FALSE
         ELSE IF is_repeated_pattern(s) /\ ~is_single_japanese_char_repetition(s)
              THEN FALSE
         ELSE IF starts_jp_then_latin(start_sample) THEN FALSE
         ELSE IF starts_short_latin(start_sample) /\ Len(s) < 8 THEN FALSE
         ELSE TRUE

is_valid_string(text) ==
    IF text.absent \/ text.s = <<>> THEN FALSE
    ELSE IF Len(strip(text.s)) < MIN_CHARS THEN FALSE
    ELSE IF Len(text.s) > MAX_TOTAL_LENGTH THEN FALSE
    ELSE LET s == text.s
             repl_token_count == Cardinality(repl_tokens(s))
             start_sample == SubSeq(s, 1, Min2(6, Len(s)))
         IN
         IF FracAbove(control_count(s), Len(s), MAX_CONTROL_CHAR_FRAC) THEN FALSE
         ELSE IF jp_count(s) < MIN_JP_CHARS_OVERRIDE
                    /\ latin_digits_count(s) < MIN_LATIN_DIGITS THEN FALSE
         ELSE IF FracBelow(printable_count(s), Len(s), MIN_PRINTABLE_FRAC) THEN FALSE
         ELSE IF repl_token_count > 0
                    /\ FracAbove(repl_tokens_length(s), Len(s), MAX_REPLACEMENT_FRAC)
              THEN FALSE
         ELSE IF jp_count(s) >= MIN_JP_CHARS_OVERRIDE /\ 2 * repl_token_count < Len(s)
              THEN TRUE
         ELSE IF jp_count(s) = 0 /\ printable_count(s) < MIN_NON_JP_LENGTH THEN FALSE
         ELSE IF jp_count(s) = 0 /\ latin_digits_count(s) < 3 THEN FALSE
         ELSE IF is_repeated_pattern(s) /\ ~is_single_japanese_char_repetition(s)
              THEN FALSE
         ELSE IF starts_jp_then_latin(start_sample) THEN FALSE
         ELSE IF starts_short_latin(start_sample) /\ Len(s) < 8 THEN FALSE
         ELSE TRUE

-----------------------------------------------------------------------------
(* SpecClassifier: is_valid_string applied to None and to texts            *)
(* pre \o head \o pad: a fixed start, a freely chosen middle of at most    *)
(* MaxHead characters and a character repeated.                            *)

\* "A", hiragana a, space, the control character 0x01, halfwidth katakana a
HeadChars == {65, 12354, 32, 1, 65393}

\* the token "<$AA$>"
SampleToken == <<60, 36, 65, 65, 36, 62>>

ClsFrames ==
    {[pre |-> <<>>, padc |-> 65, padn |-> 0],
     [pre |-> SampleToken, padc |-> 65, padn |-> 0],
     [pre |-> SampleToken, padc |-> 12354, padn |-> 31],
     [pre |-> SampleToken, padc |-> 65, padn |-> 31],
     [pre |-> <<>>, padc |-> 12354, padn |-> 31],
     [pre |-> <<>>, padc |-> 65, padn |-> 1021]}

FrameText(f, head) == f.pre \o head \o [i \in 1..f.padn |-> f.padc]

ClsInputs ==
    {None} \cup {Some(FrameText(f, h)) : f \in ClsFrames, h \in SeqsUpTo(HeadChars, MaxHead)}

InitClassifier ==
    /\ v_pc = "start"
    /\ v_text \in ClsInputs
    /\ v_result = FALSE
    /\ CodecIdle
    /\ DumpIdle
    /\ RepackIdle

Classify ==
    /\ v_pc = "start"
    /\ v_result' = is_valid_string(v_text)
    /\ v_pc' = "done"
    /\ UNCHANGED <<v_text, codecVars, dumpVars, repackVars>>

NextClassifier == Classify

SpecClassifier == InitClassifier /\ [][NextClassifier]_vars

(* C7 *)

\* the length of the text without its leading and trailing whitespace
TrimmedLength(s) ==
    LET leading == Cardinality({i \in 1..Len(s) : \A j \in 1..i : IsSpace(s[j])})
        trailing == Cardinality({i \in 1..Len(s) : \A j \in i..Len(s) : IsSpace(s[j])})
    IN IF leading = Len(s) THEN 0 ELSE Len(s) - leading - trailing

\* number of characters of s inside escape tokens, and number of tokens
EscapeChars(s) == repl_tokens_length(s)
EscapeTokens(s) == Cardinality(repl_tokens(s))

\* s is a block of 1..5 characters repeated at least twice
RepeatedBlock(s) ==
    \E size \in 1..5 :
        /\ 2 * size <= Len(s)
        /\ Len(s) % size = 0
        /\ \A i \in (size + 1)..Len(s) : s[i] = s[i - size]

SingleNativeRepeated(s) ==
    Len(s) > 0 /\ IsJapanese(s[1]) /\ \A i \in 1..Len(s) : s[i] = s[1]

\* the ordered rule list 1-11 of the cascade: whether the rule matches the
\* text and the verdict it gives
CascadeRules(s) ==
    LET n == Len(s)
        native == jp_count(s)
        latin == latin_digits_count(s)
        printable == printable_count(s)
        tokens == EscapeTokens(s)
    IN <<
      [hit |-> 100 * control_count(s) > 5 * n, verdict |-> FALSE],
      [hit |-> native < 2 /\ latin < 3, verdict |-> FALSE],
      [hit |-> 100 * printable < 55 * n, verdict |-> FALSE],
      [hit |-> tokens >= 1 /\ 100 * EscapeChars(s) > 15 * n, verdict |-> FALSE],
      [hit |-> native >= 2 /\ 2 * tokens < n, verdict |-> TRUE],
      [hit |-> native = 0 /\ printable < 5, verdict |-> FALSE],
      [hit |-> native = 0 /\ latin < 3, verdict |-> FALSE],
      [hit |-> RepeatedBlock(s) /\ ~SingleNativeRepeated(s), verdict |-> FALSE],
      [hit |-> n >= 2 /\ IsJapanese(s[1]) /\ IsLatinDigit(s[2]), verdict |-> FALSE],
      [hit |-> n < 8 /\ \E k \in 1..3 :
                  /\ k < n
                  /\ \A j \in 1..k : IsLatinDigit(s[j])
                  /\ ~IsLatinDigit(s[k + 1]),
       verdict |-> FALSE],
      [hit |-> TRUE, verdict |-> TRUE] >>

PreRejected(text) ==
    \/ text.absent
    \/ text.s = <<>>
    \/ TrimmedLength(text.s) < 2
    \/ Len(text.s) > 1024

CascadeVerdict(text) ==
    IF PreRejected(text) THEN FALSE
    ELSE LET rules == CascadeRules(text.s)
             first == SetMin({k \in 1..11 : rules[k].hit})
         IN rules[first].verdict

\* a text the override (rule 5) covers: it is not rejected up front, has at
\* least 2 native-script characters and matches none of the rules 1-4
OverrideCase(text) ==
    /\ ~PreRejected(text)
    /\ jp_count(text.s) >= 2
    /\ LET rules == CascadeRules(text.s) IN \A k \in 1..4 : ~rules[k].hit

\* C7: is_valid_string rejects absent or empty text, text whose trimmed
\* length is below 2 and text longer than 1024 characters; for every other
\* text its result is the verdict of the first matching rule of the ordered
\* list 1-11, so a text with at least 2 native-script characters that passes
\* rules 1-4 is accepted whatever rules 6-10 say.
C7_ClassifierCascade ==
    v_pc = "done" =>
        /\ v_result = CascadeVerdict(v_text)
        /\ (OverrideCase(v_text) => v_result = TRUE)

\* an accepted text with 2 native-script characters that rule 9 (native
\* character followed by a Latin letter at the start) would reject
C7_Witness ==
    /\ v_pc = "done"
    /\ v_result = TRUE
    /\ OverrideCase(v_text)
    /\ CascadeRules(v_text.s)[9].hit

-----------------------------------------------------------------------------
(* dump.py: configuration and main script *)

\* strings below this offset are ignored (0x0010C000)
OFFSET_MIN_VALID == 1097728
\* the address window 0x08000000 <= address < 0x09000000
ROM_ADDRESS_BASE == 134217728
ROM_ADDRESS_END == 150994944

\* pointer_tables (0x10F488-0x10FE50, 0x114D50-0x1150D4, 0x11603C-0x11625C,
\* 0x116AFC-0x11707C, 0x1179CC-0x117B44, 0x117CCC-0x117DA8)
pointer_tables == <<
    [start |-> 1111176, end |-> 1113680, type |-> "standard"],
    [start |-> 1133904, end |-> 1134804, type |-> "standard"],
    [start |-> 1138748, end |-> 1139292, type |-> "alternating"],
    [start |-> 1141500, end |-> 1142908, type |-> "alternating"],
    [start |-> 1145292, end |-> 1145668, type |-> "alternating"],
    [start |-> 1146060, end |-> 1146280, type |-> "standard"] >>

\* struct.unpack('<I', b)[0].  The values from 2^31 on, which TLC's integers
\* do not hold, all lie above the address window and are read as 2^31 - 1.
unpack_I(b) ==
    IF b[4] >= 128 THEN 2147483647
    ELSE b[1] + 256 * b[2] + 65536 * b[3] + 16777216 * b[4]

\* struct.pack('<I', v) for 0 <= v < 2^31
pack_I(v) ==
    <<v % 256, (v \div 256) % 256, (v \div 65536) % 256, (v \div 16777216) % 256>>

\* the tests on address and file_offset of both modes
is_pointer_candidate(rom, address) ==
    /\ ROM_ADDRESS_BASE <= address /\ address < ROM_ADDRESS_END
    /\ LET file_offset == address - ROM_ADDRESS_BASE
       IN file_offset < rom.size /\ file_offset >= OFFSET_MIN_VALID

\* ptr_offset in range(0, rom_size - 4, 4)
in_scan_range(rom_size, ptr_offset) ==
    ptr_offset >= 0 /\ ptr_offset < rom_size - 4 /\ ptr_offset % 4 = 0

\* the 4-byte-aligned offsets of the words that hold a cell: every other
\* word of the image reads 0x00000000, which is no pointer
CellWords(rom) == {4 * (o \div 4) : o \in DOMAIN rom.cells}

RECURSIVE SortedSeq(_)
SortedSeq(S) ==
    IF S = {} THEN <<>> ELSE <<SetMin(S)>> \o SortedSeq(S \ {SetMin(S)})

\* the loop that builds all_pointers in scan mode
scan_all_pointers(rom) ==
    LET found == {p \in CellWords(rom) :
                    /\ in_scan_range(rom.size, p)
                    /\ is_pointer_candidate(rom, unpack_I(Slice(rom, p, p + 4)))}
        order == SortedSeq(found)
    IN [k \in 1..Len(order) |->
            [ptr_offset |-> order[k],
             file_offset |-> unpack_I(Slice(rom, order[k], order[k] + 4))
                                - ROM_ADDRESS_BASE]]

\* the two kinds of output_block
duplicate_block(id, pointer_offset, text_offset, original_id) ==
    [id |-> id, pointer_offset |-> pointer_offset, text_offset |-> text_offset,
     is_duplicate |-> TRUE, original_id |-> original_id, text |-> <<>>]
text_block(id, pointer_offset, text_offset, text_string) ==
    [id |-> id, pointer_offset |-> pointer_offset, text_offset |-> text_offset,
     is_duplicate |-> FALSE, original_id |-> id, text |-> text_string.s]

\* scan_body without the registration of a new text offset
scan_body_no_register(st, rom, pointer_info) ==
    LET ptr_offset == pointer_info.ptr_offset
        file_offset == pointer_info.file_offset
    IN IF file_offset \in DOMAIN st.seen_text_offsets
       THEN [string_id_counter |-> st.string_id_counter + 1,
             seen_text_offsets |-> st.seen_text_offsets,
             output_file |-> Append(st.output_file,
                 duplicate_block(st.string_id_counter, ptr_offset, file_offset,
                                 st.seen_text_offsets[file_offset]))]
       ELSE LET text_string == read_string_from(rom, file_offset, terminator)
            IN IF is_valid_string(text_string)
               THEN [string_id_counter |-> st.string_id_counter + 1,
                     seen_text_offsets |-> st.seen_text_offsets,
                     output_file |-> Append(st.output_file,
                         text_block(st.string_id_counter, ptr_offset, file_offset,
                                    text_string))]
               ELSE st

\* the body of the loop over all_pointers in scan mode, on the record st of
\* string_id_counter, seen_text_offsets and output_file
scan_body(st, rom, pointer_info) ==
    LET ptr_offset == pointer_info.ptr_offset
        file_offset == pointer_info.file_offset
    IN IF file_offset \in DOMAIN st.seen_text_offsets
       THEN [string_id_counter |-> st.string_id_counter + 1,
             seen_text_offsets |-> st.seen_text_offsets,
             output_file |-> Append(st.output_file,
                 duplicate_block(st.string_id_counter, ptr_offset, file_offset,
                                 st.seen_text_offsets[file_offset]))]
       ELSE LET text_string == read_string_from(rom, file_offset, terminator)
            IN IF is_valid_string(text_string)
               THEN [string_id_counter |-> st.string_id_counter + 1,
                     seen_text_offsets |->
                         (file_offset :> st.string_id_counter) @@ st.seen_text_offsets,
                     output_file |-> Append(st.output_file,
                         text_block(st.string_id_counter, ptr_offset, file_offset,
                                    text_string))]
               ELSE st

\* tables_body with string_id_counter += 1 outside the test of the string
tables_body_counts_dropped(st, rom, pointer_offset) ==
    LET address == unpack_I(Slice(rom, pointer_offset, pointer_offset + 4))
        file_offset == address - ROM_ADDRESS_BASE
    IN IF is_pointer_candidate(rom, address)
       THEN LET text_string == read_string_from(rom, file_offset, terminator)
            IN IF is_valid_string(text_string)
               THEN IF file_offset \in DOMAIN st.seen_text_offsets
                    THEN [string_id_counter |-> st.string_id_counter + 1,
                          seen_text_offsets |-> st.seen_text_offsets,
                          output_file |-> Append(st.output_file,
                              duplicate_block(st.string_id_counter, pointer_offset,
                                  file_offset, st.seen_text_offsets[file_offset]))]
                    ELSE [string_id_counter |-> st.string_id_counter + 1,
                          seen_text_offsets |->
                              (file_offset :> st.string_id_counter)
                                  @@ st.seen_text_offsets,
                          output_file |-> Append(st.output_file,
                              text_block(st.string_id_counter, pointer_offset,
                                  file_offset, text_string))]
               ELSE [st EXCEPT !.string_id_counter = @ + 1]
       ELSE st

\* the body of the while loop of tables mode after the read of 4 bytes
tables_body(st, rom, pointer_offset) ==
    LET address == unpack_I(Slice(rom, pointer_offset, pointer_offset + 4))
        file_offset == address - ROM_ADDRESS_BASE
    IN IF is_pointer_candidate(rom, address)
       THEN LET text_string == read_string_from(rom, file_offset, terminator)
            IN IF is_valid_string(text_string)
               THEN IF file_offset \in DOMAIN st.seen_text_offsets
                    THEN [string_id_counter |-> st.string_id_counter + 1,
                          seen_text_offsets |-> st.seen_text_offsets,
                          output_file |-> Append(st.output_file,
                              duplicate_block(st.string_id_counter, pointer_offset,
                                  file_offset, st.seen_text_offsets[file_offset]))]
                    ELSE [string_id_counter |-> st.string_id_counter + 1,
                          seen_text_offsets |->
                              (file_offset :> st.string_id_counter)
                                  @@ st.seen_text_offsets,
                          output_file |-> Append(st.output_file,
                              text_block(st.string_id_counter, pointer_offset,
                                  file_offset, text_string))]
               ELSE st
       ELSE st

entry_size(table_info) == IF table_info.type = "standard" THEN 8 ELSE 16

-----------------------------------------------------------------------------
(* SpecDump: dump.py on ROM images that hold a few strings from            *)
(* OFFSET_MIN_VALID on and NSlots 4-byte fields at the start of the first  *)
(* pointer table, in both modes.                                           *)

TextBase == OFFSET_MIN_VALID
SlotBase == pointer_tables[1].start

\* the strings of the images: hiragana "aa" and "ii" (valid dialogue), "A"
\* (rejected: too short) and, below OFFSET_MIN_VALID, "aa" again
DumpTextCells ==
    CellsAt(TextBase, <<130, 160, 130, 160, 0>>)
        @@ CellsAt(TextBase + 8, <<65, 0>>)
        @@ CellsAt(TextBase + 16, <<130, 162, 130, 162, 0>>)
        @@ CellsAt(TextBase - 8, <<130, 160, 130, 160, 0>>)

\* what a 4-byte field may hold: no pointer, a pointer to one of the strings,
\* a pointer past the end of every image
SlotValues ==
    {0, ROM_ADDRESS_END - 16}
        \cup {ROM_ADDRESS_BASE + t :
                t \in {TextBase, TextBase + 8, TextBase + 16, TextBase - 8}}

RECURSIVE SlotCells(_, _)
SlotCells(values, k) ==
    IF k > Len(values) THEN <<>>
    ELSE CellsAt(SlotBase + 4 * (k - 1), pack_I(values[k])) @@ SlotCells(values, k + 1)

\* the image ends with its last field, one byte later, or after the first
\* pointer table
DumpSizes == {SlotBase + 4 * NSlots, SlotBase + 4 * NSlots + 1,
              pointer_tables[1].end + 4}

\* the fields of the images that reach beyond the first pointer table hold
\* no pointer or a pointer to one of the first two strings
LongImageSlotValues ==
    {0, ROM_ADDRESS_BASE + TextBase, ROM_ADDRESS_BASE + TextBase + 8}

DumpImages ==
    {[size |-> n, cells |-> SlotCells(values, 1) @@ DumpTextCells, runs |-> <<>>] :
        n \in DumpSizes \ {pointer_tables[1].end + 4},
        values \in [1..NSlots -> SlotValues]}
    \cup
    {[size |-> pointer_tables[1].end + 4,
      cells |-> SlotCells(values, 1) @@ DumpTextCells, runs |-> <<>>] :
        values \in [1..NSlots -> LongImageSlotValues]}

InitDump ==
    /\ d_pc = "main"
    /\ d_rom_data \in DumpImages
    /\ mode \in {"scan", "tables"}
    /\ string_id_counter = 0
    /\ seen_text_offsets = <<>>
    /\ all_pointers = <<>>
    /\ pointer_index = 0
    /\ table_index = 0
    /\ current_offset = 0
    /\ output_file = <<>>
    /\ candidates = <<>>
    /\ CodecIdle
    /\ ClassifierIdle
    /\ RepackIdle

DumpState ==
    [string_id_counter |-> string_id_counter,
     seen_text_offsets |-> seen_text_offsets,
     output_file |-> output_file]

SetDumpState(st) ==
    /\ string_id_counter' = st.string_id_counter
    /\ seen_text_offsets' = st.seen_text_offsets
    /\ output_file' = st.output_file

\* for table_info in pointer_tables: current_offset = start_offset
TableFor ==
    /\ mode = "tables"
    /\ d_pc \in {"main", "next_table"}
    /\ table_index < Len(pointer_tables)
    /\ table_index' = table_index + 1
    /\ current_offset' = pointer_tables[table_index + 1].start
    /\ d_pc' = "while"
    /\ UNCHANGED <<d_rom_data, mode, string_id_counter, seen_text_offsets,
                   all_pointers, pointer_index, output_file, candidates,
                   codecVars, clsVars, repackVars>>

\* one pass of the while loop over a table
TableRow ==
    /\ d_pc = "while"
    /\ current_offset < pointer_tables[table_index].end
    /\ Len(Slice(d_rom_data, current_offset, current_offset + 4)) >= 4
    /\ SetDumpState(tables_body(DumpState, d_rom_data, current_offset))
    /\ candidates' =
         LET address == unpack_I(Slice(d_rom_data, current_offset, current_offset + 4))
         IN IF is_pointer_candidate(d_rom_data, address)
            THEN Append(candidates, [ptr_offset |-> current_offset,
                                     file_offset |-> address - ROM_ADDRESS_BASE])
            ELSE candidates
    /\ current_offset' = current_offset + entry_size(pointer_tables[table_index])
    /\ UNCHANGED <<d_pc, d_rom_data, mode, all_pointers, pointer_index,
                   table_index, codecVars, clsVars, repackVars>>

\* if len(pointer_bytes) < 4: break
TableBreak ==
    /\ d_pc = "while"
    /\ current_offset < pointer_tables[table_index].end
    /\ Len(Slice(d_rom_data, current_offset, current_offset + 4)) < 4
    /\ d_pc' = "next_table"
    /\ UNCHANGED <<d_rom_data, mode, string_id_counter, seen_text_offsets,
                   all_pointers, pointer_index, table_index, current_offset,
                   output_file, candidates, codecVars, clsVars, repackVars>>

\* the while condition fails
TableEnd ==
    /\ d_pc = "while"
    /\ current_offset >= pointer_tables[table_index].end
    /\ d_pc' = "next_table"
    /\ UNCHANGED <<d_rom_data, mode, string_id_counter, seen_text_offsets,
                   all_pointers, pointer_index, table_index, current_offset,
                   output_file, candidates, codecVars, clsVars, repackVars>>

TablesDone ==
    /\ mode = "tables"
    /\ d_pc = "next_table"
    /\ table_index = Len(pointer_tables)
    /\ d_pc' = "done"
    /\ UNCHANGED <<d_rom_data, mode, string_id_counter, seen_text_offsets,
                   all_pointers, pointer_index, table_index, current_offset,
                   output_file, candidates, codecVars, clsVars, repackVars>>

\* the loop over range(0, rom_size - 4, 4) that builds all_pointers
ScanCollect ==
    /\ mode = "scan"
    /\ d_pc = "main"
    /\ all_pointers' = scan_all_pointers(d_rom_data)
    /\ pointer_index' = 0
    /\ d_pc' = "process"
    /\ UNCHANGED <<d_rom_data, mode, string_id_counter, seen_text_offsets,
                   table_index, current_offset, output_file, candidates,
                   codecVars, clsVars, repackVars>>

\* one pass of the loop over all_pointers
ScanProcess ==
    /\ d_pc = "process"
    /\ pointer_index < Len(all_pointers)
    /\ SetDumpState(scan_body(DumpState, d_rom_data, all_pointers[pointer_index + 1]))
    /\ candidates' = Append(candidates, all_pointers[pointer_index + 1])
    /\ pointer_index' = pointer_index + 1
    /\ UNCHANGED <<d_pc, d_rom_data, mode, all_pointers, table_index,
                   current_offset, codecVars, clsVars, repackVars>>

ScanDone ==
    /\ d_pc = "process"
    /\ pointer_index = Len(all_pointers)
    /\ d_pc' = "done"
    /\ UNCHANGED <<d_rom_data, mode, string_id_counter, seen_text_offsets,
                   all_pointers, pointer_index, table_index, current_offset,
                   output_file, candidates, codecVars, clsVars, repackVars>>

NextDump ==
    \/ TableFor \/ TableRow \/ TableBreak \/ TableEnd \/ TablesDone
    \/ ScanCollect \/ ScanProcess \/ ScanDone

SpecDump == InitDump /\ [][NextDump]_vars

(* C5 *)

\* the string a candidate points to is one the classifier accepts
CandidateAccepted(c) ==
    is_valid_string(read_string_from(d_rom_data, c.file_offset, terminator))

\* the candidates examined so far whose string is accepted, in scan order
AcceptedCandidates == SelectSeq(candidates, CandidateAccepted)

\* C5: in scan and in tables mode the emitted entries carry the ids 0, 1,
\* 2, ... in the order their pointers are scanned, canonical and duplicate
\* entries counted together without gap or repeat; a candidate whose string
\* is absent or rejected emits no entry, consumes no id and is not added to
\* the seen-offset index.
C5_IdAssignment ==
    /\ \A k \in 1..Len(output_file) : output_file[k].id = k - 1
    /\ string_id_counter = Len(output_file)
    /\ \A k \in 1..(Len(candidates) - 1) :
          candidates[k].ptr_offset < candidates[k + 1].ptr_offset
    /\ Len(output_file) = Len(AcceptedCandidates)
    /\ \A k \in 1..Len(output_file) :
          /\ output_file[k].pointer_offset = AcceptedCandidates[k].ptr_offset
          /\ output_file[k].text_offset = AcceptedCandidates[k].file_offset
    /\ \A k \in 1..Len(candidates) :
          ~CandidateAccepted(candidates[k]) =>
              candidates[k].file_offset \notin DOMAIN seen_text_offsets

\* a finished scan that emitted a canonical entry, dropped the next candidate
\* and emitted a duplicate after it
C5_Witness ==
    /\ d_pc = "done"
    /\ Len(candidates) >= 3
    /\ CandidateAccepted(candidates[1])
    /\ ~CandidateAccepted(candidates[2])
    /\ Len(output_file) >= 2
    /\ ~output_file[1].is_duplicate
    /\ output_file[2].is_duplicate
    /\ output_file[2].pointer_offset = candidates[3].ptr_offset

(* C6 *)

CanonicalAt(text_offset) ==
    {j \in 1..Len(output_file) :
        ~output_file[j].is_duplicate /\ output_file[j].text_offset = text_offset}

\* C6: after any prefix of the scan, every text_offset among the emitted
\* entries has exactly one non-duplicate entry, and every duplicate entry
\* references an id below its own, that of the non-duplicate entry with the
\* same text_offset.
C6_Deduplication ==
    \A k \in 1..Len(output_file) :
        LET e == output_file[k] IN
        /\ Cardinality(CanonicalAt(e.text_offset)) = 1
        /\ e.is_duplicate =>
              /\ e.original_id < e.id
              /\ \E j \in CanonicalAt(e.text_offset) :
                    output_file[j].id = e.original_id

\* two canonical entries at different text offsets and a duplicate
C6_Witness ==
    /\ \E j, k \in 1..Len(output_file) :
          /\ ~output_file[j].is_duplicate /\ ~output_file[k].is_duplicate
          /\ output_file[j].text_offset # output_file[k].text_offset
    /\ \E k \in 1..Len(output_file) : output_file[k].is_duplicate

(* C9 *)

\* the 4-byte-aligned offsets p with p + 4 <= image size, among the words
\* that hold a cell (every other word reads 0 and is no pointer)
AlignedWords(rom) == {p \in CellWords(rom) : p % 4 = 0 /\ p + 4 <= rom.size}

\* the value at p makes p a pointer candidate
HoldsPointer(rom, p) ==
    LET v == unpack_I(Slice(rom, p, p + 4)) IN
    /\ 134217728 <= v /\ v < 150994944
    /\ v - 134217728 < rom.size
    /\ v - 134217728 >= OFFSET_MIN_VALID

\* C9: in scan mode every 4-byte-aligned offset p with p + 4 <= image size
\* is read, the last aligned word of the image included, and p becomes a
\* pointer candidate exactly when its value v satisfies 0x08000000 <= v <
\* 0x09000000 and v - 0x08000000 is below the image size and at or above
\* OFFSET_MIN_VALID.
C9_ScanCoverage ==
    (mode = "scan" /\ d_pc \in {"process", "done"}) =>
        {all_pointers[k].ptr_offset : k \in 1..Len(all_pointers)}
            = {p \in AlignedWords(d_rom_data) : HoldsPointer(d_rom_data, p)}

-----------------------------------------------------------------------------
(* repack.py: configuration, entries and the bodies of the two passes *)

\* 0x79D6D8: where relocated strings are written
free_space_start_offset == 7984856
\* 0x7FFFFF: the end of the usable ROM space
ROM_END_OFFSET == 8388607

\* the two kinds of entry parse_text_file appends.  The keys a Python dict
\* of one kind lacks (original_text_offset and text of a duplicate,
\* original_id of a text entry) are never read; here they hold 0 and "".
duplicate_entry(entry_id, pointer_offset, original_id) ==
    [id |-> entry_id, pointer_offset |-> pointer_offset, is_duplicate |-> TRUE,
     original_id |-> original_id, original_text_offset |-> 0,
     text |-> [s |-> <<>>, fill |-> 0]]
text_entry(entry_id, pointer_offset, text_offset, text) ==
    [id |-> entry_id, pointer_offset |-> pointer_offset, is_duplicate |-> FALSE,
     original_id |-> 0, original_text_offset |-> text_offset, text |-> text]

\* A text of the translation file is [s, fill]: the characters s followed by
\* fill copies of the letter "x".  encode_string splits at tags only and "x"
\* is part of no tag, so the encoding of such a text is the encoding of s
\* with fill bytes 0x78 before the terminator: the value [raised, bytes,
\* fill] stands for bytes[:-1] + b'x' * fill + bytes[-1:].
encode_text(text) ==
    LET e == encode_string(text.s)
    IN [raised |-> e.raised, bytes |-> e.bytes, fill |-> text.fill]

\* len(new_text_bytes)
encoded_length(new_text_bytes) ==
    Len(new_text_bytes.bytes) + new_text_bytes.fill

\* rom_data[offset : offset + new_length] = new_text_bytes
write_text_bytes(rom, offset, new_text_bytes) ==
    LET n == Len(new_text_bytes.bytes)
        body == SubSeq(new_text_bytes.bytes, 1, n - 1)
        last == SubSeq(new_text_bytes.bytes, n, n)
        r1 == SetSlice(rom, offset, body)
        r2 == FillSlice(r1, offset + Len(body), new_text_bytes.fill, 120)
    IN SetSlice(r2, offset + Len(body) + new_text_bytes.fill, last)

\* original_end and original_length of the first pass
original_length_at(rom, original_offset) ==
    LET original_end == find(rom, terminator, original_offset)
    IN IF original_end # -1 THEN (original_end - original_offset) + 1 ELSE 0

\* the in-place branch: the new bytes, then terminators up to the end of
\* the original space
write_in_place(rom, original_offset, new_text_bytes, original_length) ==
    LET new_length == encoded_length(new_text_bytes)
        written == write_text_bytes(rom, original_offset, new_text_bytes)
    IN SetSlice(written, original_offset + new_length,
                [i \in 1..(original_length - new_length) |-> terminator])

\* the test before a relocation with only the cursor compared
out_of_free_space_cursor_only(cursor, new_length) ==
    cursor > ROM_END_OFFSET

\* the test before a relocation: FATAL ERROR and exit() when it holds
out_of_free_space(cursor, new_length) ==
    cursor + new_length > ROM_END_OFFSET

\* target_id of the second pass
target_id_of(entry) ==
    IF entry.is_duplicate THEN entry.original_id ELSE entry.id

\* new_pointer_bytes without the ROM address base
new_pointer_bytes_no_base(new_text_location) ==
    pack_I(new_text_location)

\* new_pointer_value and new_pointer_bytes
new_pointer_bytes(new_text_location) ==
    pack_I(134217728 + new_text_location)

\* the body of the second pass with a pointer to offset 0 written for a
\* target id that has no location
second_pass_body_guess(st, entry) ==
    LET pointer_offset == entry.pointer_offset
        target_id == target_id_of(entry)
    IN IF target_id \in DOMAIN st.repointed_locations
       THEN [st EXCEPT !.rom_data =
                SetSlice(@, pointer_offset,
                         new_pointer_bytes(st.repointed_locations[target_id]))]
       ELSE [st EXCEPT !.rom_data = SetSlice(@, pointer_offset, new_pointer_bytes(0)),
                       !.warnings = Append(@, entry.id)]

\* the body of the second pass on st = [rom_data, repointed_locations,
\* warnings]
second_pass_body(st, entry) ==
    LET pointer_offset == entry.pointer_offset
        target_id == target_id_of(entry)
    IN IF target_id \in DOMAIN st.repointed_locations
       THEN [st EXCEPT !.rom_data =
                SetSlice(@, pointer_offset,
                         new_pointer_bytes(st.repointed_locations[target_id]))]
       ELSE [st EXCEPT !.warnings = Append(@, entry.id)]

-----------------------------------------------------------------------------
(* SpecRepack: repack.py on the 8 MiB ROM and a text file of MaxEntries    *)
(* entries as dump.py writes them (ids 0, 1, 2, ... in order, pointer      *)
(* fields 4 bytes apart), each entry either a text, kept or edited, or a   *)
(* duplicate of any id.  The string of entry 1 starts inside the string of *)
(* entry 0.                                                                *)

EntryPointerOffset(k) == SlotBase + 4 * k
EntryTextOffset(k) ==
    IF k = 0 THEN TextBase ELSE IF k = 1 THEN TextBase + 2 ELSE TextBase + 8 * (k - 1)

\* hiragana "aiu" at TextBase and "ee" in every later slot
RepackTextCells ==
    CellsAt(TextBase, <<130, 160, 130, 162, 130, 164, 0>>)
        @@ [o \in UNION {(TextBase + 8 * (k - 1))..(TextBase + 8 * (k - 1) + 4) :
                            k \in 2..(MaxEntries - 1)}
               |-> <<130, 166, 130, 166, 0>>[((o - TextBase) % 8) + 1]]

RepackTextImage ==
    [size |-> ROM_END_OFFSET + 1, cells |-> RepackTextCells, runs |-> <<>>]

LongText == <<12354, 12356, 12358, 12360>>
ShortText == <<12356>>
BadHexText == <<60, 36, 70, 36, 62>>

\* a text that fills the free space up to the length of LongText
BulkFill ==
    ROM_END_OFFSET - free_space_start_offset
        - Len(encode_string(LongText).bytes) - 1

\* the texts an entry may hold: the text dump.py extracted, a shorter one,
\* longer ones and one whose hex tag bytes.fromhex rejects
EntryTexts(k) ==
    << [s |-> read_string_from(RepackTextImage, EntryTextOffset(k), terminator).s,
        fill |-> 0],
       [s |-> ShortText, fill |-> 0],
       [s |-> LongText, fill |-> 0],
       [s |-> <<>>, fill |-> BulkFill],
       [s |-> BadHexText, fill |-> 0] >>

EntryChoices ==
    {[dup |-> FALSE, n |-> t] : t \in 1..5}
        \cup {[dup |-> TRUE, n |-> j] : j \in 0..(MaxEntries - 1)}

EntryOf(k, c) ==
    IF c.dup THEN duplicate_entry(k, EntryPointerOffset(k), c.n)
    ELSE text_entry(k, EntryPointerOffset(k), EntryTextOffset(k), EntryTexts(k)[c.n])

EntryLists ==
    {[i \in 1..MaxEntries |-> EntryOf(i - 1, c[i])] :
        c \in [1..MaxEntries -> EntryChoices]}

\* the ROM of a text file: every pointer field holds the address of the
\* string dump.py read through it
RepackImage(es) ==
    LET address(e) ==
            ROM_ADDRESS_BASE
                + EntryTextOffset(IF e.is_duplicate THEN e.original_id ELSE e.id)
        fields == [o \in SlotBase..(SlotBase + 4 * Len(es) - 1) |->
                      pack_I(address(es[((o - SlotBase) \div 4) + 1]))
                          [((o - SlotBase) % 4) + 1]]
    IN [size |-> ROM_END_OFFSET + 1, cells |-> fields @@ RepackTextCells,
        runs |-> <<>>]

InitRepack ==
    /\ r_pc = "first_pass"
    /\ entries \in EntryLists
    /\ rom_loaded = RepackImage(entries)
    /\ rom_data = rom_loaded
    /\ entry_index = 0
    /\ current_free_space_offset = free_space_start_offset
    /\ repointed_locations = <<>>
    /\ warnings = <<>>
    /\ new_rom_file = [written |-> FALSE, data |-> EmptyImage]
    /\ original_lengths = <<>>
    /\ CodecIdle
    /\ ClassifierIdle
    /\ DumpIdle

\* the entry the running pass is at
Entry == entries[entry_index + 1]

\* first pass: if entry["is_duplicate"]: continue
FirstPassSkip ==
    /\ r_pc = "first_pass"
    /\ entry_index < Len(entries)
    /\ Entry.is_duplicate
    /\ entry_index' = entry_index + 1
    /\ UNCHANGED <<r_pc, rom_loaded, rom_data, entries,
                   current_free_space_offset, repointed_locations, warnings,
                   new_rom_file, original_lengths, codecVars, clsVars, dumpVars>>

\* first pass: bytes.fromhex raises ValueError inside encode_string
FirstPassCrash ==
    /\ r_pc = "first_pass"
    /\ entry_index < Len(entries)
    /\ ~Entry.is_duplicate
    /\ encode_text(Entry.text).raised
    /\ original_lengths' =
          (Entry.id :> original_length_at(rom_data, Entry.original_text_offset))
              @@ original_lengths
    /\ r_pc' = "crashed"
    /\ UNCHANGED <<rom_loaded, rom_data, entries, entry_index,
                   current_free_space_offset, repointed_locations, warnings,
                   new_rom_file, codecVars, clsVars, dumpVars>>

\* first pass: the new text fits and stays at the original location
FirstPassInPlace ==
    /\ r_pc = "first_pass"
    /\ entry_index < Len(entries)
    /\ ~Entry.is_duplicate
    /\ LET original_offset == Entry.original_text_offset
           original_length == original_length_at(rom_data, original_offset)
           new_text_bytes == encode_text(Entry.text)
           new_length == encoded_length(new_text_bytes)
       IN /\ ~new_text_bytes.raised
          /\ new_length <= original_length
          /\ rom_data' = write_in_place(rom_data, original_offset,
                                        new_text_bytes, original_length)
          /\ repointed_locations' =
                (Entry.id :> original_offset) @@ repointed_locations
          /\ original_lengths' = (Entry.id :> original_length) @@ original_lengths
    /\ entry_index' = entry_index + 1
    /\ UNCHANGED <<r_pc, rom_loaded, entries, current_free_space_offset,
                   warnings, new_rom_file, codecVars, clsVars, dumpVars>>

\* first pass: the new text does not fit and moves to free space
FirstPassRelocate ==
    /\ r_pc = "first_pass"
    /\ entry_index < Len(entries)
    /\ ~Entry.is_duplicate
    /\ LET original_offset == Entry.original_text_offset
           original_length == original_length_at(rom_data, original_offset)
           new_text_bytes == encode_text(Entry.text)
           new_length == encoded_length(new_text_bytes)
       IN /\ ~new_text_bytes.raised
          /\ new_length > original_length
          /\ ~out_of_free_space(current_free_space_offset, new_length)
          /\ rom_data' = write_text_bytes(rom_data, current_free_space_offset,
                                          new_text_bytes)
          /\ repointed_locations' =
                (Entry.id :> current_free_space_offset) @@ repointed_locations
          /\ current_free_space_offset' = current_free_space_offset + new_length
          /\ original_lengths' = (Entry.id :> original_length) @@ original_lengths
    /\ entry_index' = entry_index + 1
    /\ UNCHANGED <<r_pc, rom_loaded, entries, warnings, new_rom_file,
                   codecVars, clsVars, dumpVars>>

\* first pass: FATAL ERROR: Ran out of free space, exit()
FirstPassAbort ==
    /\ r_pc = "first_pass"
    /\ entry_index < Len(entries)
    /\ ~Entry.is_duplicate
    /\ LET original_offset == Entry.original_text_offset
           original_length == original_length_at(rom_data, original_offset)
           new_text_bytes == encode_text(Entry.text)
           new_length == encoded_length(new_text_bytes)
       IN /\ ~new_text_bytes.raised
          /\ new_length > original_length
          /\ out_of_free_space(current_free_space_offset, new_length)
          /\ original_lengths' = (Entry.id :> original_length) @@ original_lengths
    /\ r_pc' = "aborted"
    /\ UNCHANGED <<rom_loaded, rom_data, entries, entry_index,
                   current_free_space_offset, repointed_locations, warnings,
                   new_rom_file, codecVars, clsVars, dumpVars>>

\* the first loop ends, the second begins
FirstPassEnd ==
    /\ r_pc = "first_pass"
    /\ entry_index = Len(entries)
    /\ r_pc' = "second_pass"
    /\ entry_index' = 0
    /\ UNCHANGED <<rom_loaded, rom_data, entries, current_free_space_offset,
                   repointed_locations, warnings, new_rom_file,
                   original_lengths, codecVars, clsVars, dumpVars>>

SecondPassState ==
    [rom_data |-> rom_data, repointed_locations |-> repointed_locations,
     warnings |-> warnings]

\* second pass: the target id has a location, the pointer is rewritten
SecondPassPatch ==
    /\ r_pc = "second_pass"
    /\ entry_index < Len(entries)
    /\ target_id_of(Entry) \in DOMAIN repointed_locations
    /\ rom_data' = second_pass_body(SecondPassState, Entry).rom_data
    /\ warnings' = second_pass_body(SecondPassState, Entry).warnings
    /\ entry_index' = entry_index + 1
    /\ UNCHANGED <<r_pc, rom_loaded, entries, current_free_space_offset,
                   repointed_locations, new_rom_file, original_lengths,
                   codecVars, clsVars, dumpVars>>

\* second pass: WARNING: Could not find original string for duplicate
SecondPassWarn ==
    /\ r_pc = "second_pass"
    /\ entry_index < Len(entries)
    /\ target_id_of(Entry) \notin DOMAIN repointed_locations
    /\ rom_data' = second_pass_body(SecondPassState, Entry).rom_data
    /\ warnings' = second_pass_body(SecondPassState, Entry).warnings
    /\ entry_index' = entry_index + 1
    /\ UNCHANGED <<r_pc, rom_loaded, entries, current_free_space_offset,
                   repointed_locations, new_rom_file, original_lengths,
                   codecVars, clsVars, dumpVars>>

\* the final step: rom_data is written to the new ROM file
WriteRom ==
    /\ r_pc = "second_pass"
    /\ entry_index = Len(entries)
    /\ new_rom_file' = [written |-> TRUE, data |-> rom_data]
    /\ r_pc' = "done"
    /\ UNCHANGED <<rom_loaded, rom_data, entries, entry_index,
                   current_free_space_offset, repointed_locations, warnings,
                   original_lengths, codecVars, clsVars, dumpVars>>

NextRepack ==
    \/ FirstPassSkip \/ FirstPassCrash \/ FirstPassInPlace \/ FirstPassRelocate
    \/ FirstPassAbort \/ FirstPassEnd
    \/ SecondPassPatch \/ SecondPassWarn \/ WriteRom

SpecRepack == InitRepack /\ [][NextRepack]_vars

(* C2 *)

\* no two entries' 4-byte pointer fields share a byte
NonOverlappingPointerFields ==
    \A i, j \in 1..Len(entries) :
        i # j => \/ entries[i].pointer_offset + 4 <= entries[j].pointer_offset
                 \/ entries[j].pointer_offset + 4 <= entries[i].pointer_offset

\* the 4 bytes at the pointer field of entry e, read as a little-endian value
PointerValue(rom, e) == unpack_I(Slice(rom, e.pointer_offset, e.pointer_offset + 4))

\* the id an entry resolves to has a recorded relocation
Resolved(e) ==
    (IF e.is_duplicate THEN e.original_id ELSE e.id) \in DOMAIN repointed_locations
RelocationOf(e) ==
    repointed_locations[IF e.is_duplicate THEN e.original_id ELSE e.id]

\* C2: after a repack that completes, with pairwise non-overlapping pointer
\* fields, the 4 bytes at the pointer_offset of every entry whose resolved
\* target id has a recorded relocation are the little-endian value
\* 0x08000000 + relocated offset of that target; a canonical entry and all
\* its duplicates hold the same address, also after a relocation to free
\* space.
C2_PointerPatch ==
    (r_pc = "done" /\ NonOverlappingPointerFields) =>
        /\ \A k \in 1..Len(entries) :
              Resolved(entries[k]) =>
                  /\ PointerValue(rom_data, entries[k])
                        = 134217728 + RelocationOf(entries[k])
                  /\ PointerValue(new_rom_file.data, entries[k])
                        = 134217728 + RelocationOf(entries[k])
        /\ \A k, d \in 1..Len(entries) :
              (/\ ~entries[k].is_duplicate
               /\ entries[d].is_duplicate
               /\ entries[d].original_id = entries[k].id) =>
                  Slice(rom_data, entries[d].pointer_offset,
                        entries[d].pointer_offset + 4)
                      = Slice(rom_data, entries[k].pointer_offset,
                              entries[k].pointer_offset + 4)

\* a completed repack that moved a text to free space and patched the
\* pointer of a duplicate of it
C2_Witness ==
    /\ r_pc = "done"
    /\ \E k, d \in 1..Len(entries) :
          /\ ~entries[k].is_duplicate
          /\ repointed_locations[entries[k].id] >= free_space_start_offset
          /\ entries[d].is_duplicate
          /\ entries[d].original_id = entries[k].id
          /\ PointerValue(rom_data, entries[d])
                # PointerValue(rom_loaded, entries[d])

(* C3 *)

\* the image holds the encoded text nb from offset on
ImageHolds(rom, offset, nb) ==
    LET n == Len(nb.bytes)
        body == SubSeq(nb.bytes, 1, n - 1)
    IN /\ Slice(rom, offset, offset + Len(body)) = body
       /\ FilledWith(rom, offset + Len(body), nb.fill, 120)
       /\ Slice(rom, offset + Len(body) + nb.fill,
                offset + Len(body) + nb.fill + 1) = <<terminator>>

\* C3: after a repack that completes over entries produced by extraction,
\* the image bytes from the recorded relocation offset of every canonical
\* entry on are exactly its re-encoded text ending in the terminator, so
\* that every patched pointer refers to the intended text, also when the
\* original slots of two entries overlap.
C3_PointerValidity ==
    r_pc = "done" =>
        \A k \in 1..Len(entries) :
            ~entries[k].is_duplicate =>
                /\ entries[k].id \in DOMAIN repointed_locations
                /\ ImageHolds(rom_data, repointed_locations[entries[k].id],
                              encode_text(entries[k].text))

(* C4 *)

\* the running entry of the first pass needs a relocation of more bytes
\* than the free space has left
Exhausted ==
    /\ r_pc = "first_pass"
    /\ entry_index < Len(entries)
    /\ ~entries[entry_index + 1].is_duplicate
    /\ LET e == entries[entry_index + 1]
           nb == encode_text(e.text)
       IN /\ ~nb.raised
          /\ Len(nb.bytes) + nb.fill
                > original_length_at(rom_data, e.original_text_offset)
          /\ current_free_space_offset + Len(nb.bytes) + nb.fill > 8388607

\* every pointer field holds the bytes it held when the ROM was loaded
NoPointerPatched ==
    \A k \in 1..Len(entries) :
        Slice(rom_data, entries[k].pointer_offset, entries[k].pointer_offset + 4)
            = Slice(rom_loaded, entries[k].pointer_offset,
                    entries[k].pointer_offset + 4)

\* C4: in every reachable state of the placement pass the allocator cursor
\* lies between free_space_start_offset and ROM_END_OFFSET and it never
\* decreases; when a relocation would need cursor + encoded length >
\* ROM_END_OFFSET the repack aborts at that point: no further byte of the
\* buffer is written, no pointer is patched and the output ROM file is never
\* written, which happens only after both passes completed.
C4_FreeSpaceExhaustion ==
    /\ [](r_pc # "idle" =>
            /\ 7984856 <= current_free_space_offset
            /\ current_free_space_offset <= 8388607)
    /\ [][current_free_space_offset' >= current_free_space_offset]_vars
    /\ [][Exhausted => (r_pc' = "aborted" /\ rom_data' = rom_data)]_vars
    /\ [][r_pc = "aborted" => UNCHANGED <<r_pc, rom_data, new_rom_file>>]_vars
    /\ [](r_pc = "aborted" => (NoPointerPatched /\ ~new_rom_file.written))
    /\ [](new_rom_file.written =>
            (r_pc = "done" /\ entry_index = Len(entries)))

\* the repack aborted after relocations that used the free space up to its
\* last byte
C4_Witness ==
    /\ r_pc = "aborted"
    /\ current_free_space_offset = ROM_END_OFFSET
    /\ rom_data # rom_loaded

(* C8 *)

\* C8: the original slot length the placement pass computes for a canonical
\* entry is the distance from its text offset to the next terminator in the
\* image as it was loaded, terminator included, whatever the placement of
\* earlier entries wrote into the buffer.
C8_SlotLengthPristine ==
    \A k \in 1..Len(entries) :
        entries[k].id \in DOMAIN original_lengths =>
            original_lengths[entries[k].id]
                = original_length_at(rom_loaded, entries[k].original_text_offset)

(* C10 *)

\* the running entry of the second pass resolves to an id without location
Dangling ==
    /\ r_pc = "second_pass"
    /\ entry_index < Len(entries)
    /\ ~Resolved(entries[entry_index + 1])

\* C10: in the pointer-patch pass an entry whose resolved target id has no
\* recorded relocation leaves the 4 bytes at its pointer_offset (and the
\* whole image) unchanged and reports a warning, the pass continues with
\* the next entry, and every entry whose target id has a recorded relocation
\* is still patched.
C10_DanglingDuplicate ==
    /\ [][Dangling =>
            /\ rom_data' = rom_data
            /\ warnings' = Append(warnings, entries[entry_index + 1].id)
            /\ r_pc' = "second_pass"
            /\ entry_index' = entry_index + 1]_vars
    /\ [](r_pc = "done" =>
            \A k \in 1..Len(entries) :
                IF Resolved(entries[k])
                THEN PointerValue(rom_data, entries[k])
                        = 134217728 + RelocationOf(entries[k])
                ELSE /\ Slice(rom_data, entries[k].pointer_offset,
                              entries[k].pointer_offset + 4)
                           = Slice(rom_loaded, entries[k].pointer_offset,
                                   entries[k].pointer_offset + 4)
                     /\ \E w \in 1..Len(warnings) : warnings[w] = entries[k].id)

\* a completed repack with a dangling duplicate before an entry whose
\* pointer was rewritten to a new address
C10_Witness ==
    /\ r_pc = "done"
    /\ \E i, j \in 1..Len(entries) :
          /\ i < j
          /\ ~Resolved(entries[i])
          /\ Resolved(entries[j])
          /\ PointerValue(rom_data, entries[j]) # PointerValue(rom_loaded, entries[j])
    /\ warnings # <<>>

====
